---- MODULE Spec2Model ----
(***************************************************************************)
(* Model of lib/connection.js (node-apn): the Connection object, its       *)
(* promise-driven connect / send path, the notification buffer, the        *)
(* notification cache and the error-frame replay.                          *)
(*                                                                         *)
(* The methods of Connection.prototype are operators over a record c that  *)
(* holds the fields of the object; every action applies one entry point    *)
(* (a public call, a socket event, a timer, a promise callback) to the     *)
(* current object and stores the result.                                   *)
(*                                                                         *)
(* Promise callbacks (q) run on a later tick, before any I/O event: the    *)
(* callbacks of an unsettled deferredConnection wait in `pending`, those   *)
(* of a resolved one in `tasks`, and socket / timer / file events are      *)
(* taken only when `tasks` is empty.                                       *)
(***************************************************************************)
EXTENDS Integers, Sequences, FiniteSets, TLC

\* ---------------------------------------------------------------- bounds
MaxNotifs == 3          \* notifications the application submits
MaxFrames == 1          \* error frames received from the gateway
MaxCacheLength == 3     \* the largest options.cacheLength
MaxInvalid == 1         \* submitted notifications that cannot be encoded

\* ------------------------------------------------------ program constants
MaxPayload == 255       \* messageLength > 255 is rejected
HalfWord == 65536       \* identifiers are 32 bits wide, kept as two 16-bit halves
ErrorCommand == 8       \* data[0] == 8

PayloadLengths == {MaxPayload, MaxPayload + 1}
StatusCodes == {8}
Commands == {ErrorCommand, 0}
ReadResults == {"error", "empty", "data"}

VARIABLES
    options,              \* this.options (fixed after construction)
    deferredInitialize,   \* "null" | "pending" | "resolved" | "rejected"
    certData, keyData,    \* this.certData / this.keyData are set
    certReading, keyReading,  \* an fs.readFile callback is outstanding
    deferredConnection,   \* "none" | "pending" | "resolved" | "rejected"
    opening,              \* then-callbacks of initialize() in connect() not yet run
    failing,              \* fail-callbacks of connect() scheduled and not yet run
    socket,               \* this.socket
    connectionTimeout,    \* the idle timer is armed
    currentId,            \* this.currentId
    cachedNotifications,  \* this.cachedNotifications (notification refs)
    notificationBuffer,   \* this.notificationBuffer  (notification refs)
    notifs,               \* the notification objects, by reference
    submitted,            \* number of sendNotification calls by the application
    offline,              \* history: every call so far found the instance not connected
    pending,              \* then-callbacks waiting for deferredConnection
    tasks,                \* then-callbacks scheduled for the next tick
    written,              \* history: socket.write calls
    errlog,               \* history: errorCallback invocations
    evicted,              \* history: notifications shifted out of a full cache
    keepOrder,            \* the history `appended` is kept (fixed; SpecBusy)
    appended,             \* history: notifications the send callback buffered, in
                          \* the order in which each was buffered first
    frames,               \* history: number of error frames received
    gateway               \* the gateway's side of the current transport

vars == << options, deferredInitialize, certData, keyData, certReading,
           keyReading, deferredConnection, opening, failing, socket,
           connectionTimeout,
           currentId, cachedNotifications, notificationBuffer, notifs,
           submitted, offline, pending, tasks, written, errlog, evicted,
           keepOrder, appended, frames, gateway >>

NoSocket == [open |-> FALSE, state |-> "handshake", writable |-> FALSE, bufferSize |-> 0]
NewSocket == [open |-> TRUE, state |-> "handshake", writable |-> TRUE, bufferSize |-> 0]
\* An identifier k in 0..0xffffffff is the record [hi, lo] with
\* k = hi * HalfWord + lo (TLC's integers are narrower than 0xffffffff).
Id(k) == [hi |-> k \div HalfWord, lo |-> k % HalfWord]
Undefined == [hi |-> -1, lo |-> -1]
NoNotification == [token |-> TRUE, len |-> 0, uid |-> Undefined]
Null == 0

\* The Connection object as one record.
Conn ==
    [ deferredInitialize |-> deferredInitialize, certData |-> certData,
      keyData |-> keyData, certReading |-> certReading, keyReading |-> keyReading,
      deferredConnection |-> deferredConnection, opening |-> opening,
      failing |-> failing,
      socket |-> socket,
      connectionTimeout |-> connectionTimeout, currentId |-> currentId,
      cachedNotifications |-> cachedNotifications,
      notificationBuffer |-> notificationBuffer, notifs |-> notifs,
      pending |-> pending, tasks |-> tasks, written |-> written, errlog |-> errlog,
      evicted |-> evicted, appended |-> appended ]

Store(c) ==
    /\ deferredInitialize' = c.deferredInitialize
    /\ certData' = c.certData
    /\ keyData' = c.keyData
    /\ certReading' = c.certReading
    /\ keyReading' = c.keyReading
    /\ deferredConnection' = c.deferredConnection
    /\ opening' = c.opening
    /\ failing' = c.failing
    /\ socket' = c.socket
    /\ connectionTimeout' = c.connectionTimeout
    /\ currentId' = c.currentId
    /\ cachedNotifications' = c.cachedNotifications
    /\ notificationBuffer' = c.notificationBuffer
    /\ notifs' = c.notifs
    /\ pending' = c.pending
    /\ tasks' = c.tasks
    /\ written' = c.written
    /\ errlog' = c.errlog
    /\ evicted' = c.evicted
    /\ appended' = c.appended

\* ------------------------------------------------------------- q deferreds
\* A deferred settles once; resolve / reject of a settled deferred is a no-op.
Resolve(d) == IF d = "pending" THEN "resolved" ELSE d
Reject(d) == IF d = "pending" THEN "rejected" ELSE d

\* deferredConnection.reject: the .fail callback of every waiting
\* sendNotification runs; it is not bound (this.raiseError is not a function
\* there), so it throws inside q and the notification is gone.
rejectConnection(c) ==
    IF c.deferredConnection = "pending"
    THEN [c EXCEPT !.deferredConnection = "rejected", !.pending = << >>]
    ELSE c

\* deferredConnection.resolve: the waiting then-callbacks are scheduled in
\* the order in which they were registered.
resolveConnection(c) ==
    IF c.deferredConnection = "pending"
    THEN [c EXCEPT !.deferredConnection = "resolved",
                   !.tasks = c.tasks \o c.pending, !.pending = << >>]
    ELSE c

\* -------------------------------------------------------------- initialize
checkInitialized(c) ==
    IF c.keyData /\ c.certData
    THEN [c EXCEPT !.deferredInitialize = Resolve(@)]
    ELSE c

initialize(c) ==
    IF c.deferredInitialize # "null" THEN c
    ELSE LET c1 == [c EXCEPT !.deferredInitialize = "pending"]
             c2 == IF options.certData THEN [c1 EXCEPT !.certData = TRUE]
                                       ELSE [c1 EXCEPT !.certReading = TRUE]
             c3 == IF options.keyData THEN [c2 EXCEPT !.keyData = TRUE]
                                      ELSE [c2 EXCEPT !.keyReading = TRUE]
         IN checkInitialized(c3)

\* ----------------------------------------------------------------- connect
\* deferredInitialize.reject(err) in a readFile callback (lines 80-83,
\* 94-97): the then-callbacks of connect() that wait for the promise will
\* not run, their fail-callbacks are scheduled.
rejectInitialize(c) ==
    IF c.deferredInitialize = "pending"
    THEN [c EXCEPT !.deferredInitialize = "rejected",
                   !.failing = @ + c.opening, !.opening = 0]
    ELSE c

\* The fail-callback of initialize() in connect() (lines 152-154), a promise
\* callback of its own tick.
failConnect(c) == rejectConnection([c EXCEPT !.failing = @ - 1])

\* variant: every call starts an attempt of its own
connect_NoShare(c) ==
    LET c1 == initialize([c EXCEPT !.deferredConnection = "pending"])
    IN IF c1.deferredInitialize = "rejected"
       THEN [c1 EXCEPT !.failing = @ + 1]
       ELSE [c1 EXCEPT !.opening = @ + 1]

\* connect() up to its return; the then-callback that opens the transport is
\* the action OpenTransport, the fail-callback the action ConnectFailed.
connect(c) ==
    IF c.deferredConnection # "none" THEN c
    ELSE LET c1 == initialize([c EXCEPT !.deferredConnection = "pending"])
         IN IF c1.deferredInitialize = "rejected"
            THEN [c1 EXCEPT !.failing = @ + 1]
            ELSE [c1 EXCEPT !.opening = @ + 1]

\* this.connect().then(callback).fail(...) of sendNotification
thenSend(c, n) ==
    CASE c.deferredConnection = "pending" -> [c EXCEPT !.pending = Append(@, n)]
      [] c.deferredConnection = "resolved" -> [c EXCEPT !.tasks = Append(@, n)]
      [] OTHER -> c

sendNotification(c, n) == thenSend(connect(c), n)

\* ----------------------------------------------------------- small methods
\* variant: a failure without a notification reference is not reported
raiseError_SkipsNull(c, kind, code, n) ==
    IF options.errorCallback /\ n # Null
    THEN [c EXCEPT !.errlog = Append(@, [kind |-> kind, code |-> code, n |-> n])]
    ELSE c

raiseError(c, kind, code, n) ==
    IF options.errorCallback
    THEN [c EXCEPT !.errlog = Append(@, [kind |-> kind, code |-> code, n |-> n])]
    ELSE c

\* variant: a notification that is buffered loses its identifier
bufferNotification_ClearsUid(c, n) ==
    [c EXCEPT !.notificationBuffer = Append(@, n),
              !.notifs[n].uid = Undefined,
              !.appended = IF ~keepOrder \/ \E i \in 1..Len(@) : @[i] = n
                           THEN @ ELSE Append(@, n)]

bufferNotification(c, n) ==
    [c EXCEPT !.notificationBuffer = Append(@, n),
              !.appended = IF ~keepOrder \/ \E i \in 1..Len(@) : @[i] = n
                           THEN @ ELSE Append(@, n)]

\* variant: a push onto a full cache empties it instead of dropping the oldest
cacheNotification_ClearsWhenFull(c, n) ==
    LET pushed == Append(c.cachedNotifications, n)
    IN IF Len(pushed) > options.cacheLength
       THEN [c EXCEPT !.cachedNotifications = << n >>,
                      !.evicted = @ \cup {c.cachedNotifications[i] :
                                             i \in 1..Len(c.cachedNotifications)}]
       ELSE [c EXCEPT !.cachedNotifications = pushed]

cacheNotification(c, n) ==
    LET pushed == Append(c.cachedNotifications, n)
    IN IF Len(pushed) > options.cacheLength
       THEN [c EXCEPT !.cachedNotifications = Tail(pushed),
                      !.evicted = @ \cup {Head(pushed)}]
       ELSE [c EXCEPT !.cachedNotifications = pushed]

socketDrained(c) ==
    IF c.socket.open /\ (c.socket.bufferSize # 0 \/ ~c.socket.writable) THEN c
    ELSE IF Len(c.notificationBuffer) > 0
         THEN sendNotification([c EXCEPT !.notificationBuffer = Tail(@)],
                               Head(c.notificationBuffer))
         ELSE c

\* variant: the transport is left as it is
destroyConnection_Noop(c) == c

\* socket.destroySoon(): no further writes are accepted; 'close' follows.
destroyConnection(c) ==
    IF c.socket.open THEN [c EXCEPT !.socket.writable = FALSE] ELSE c

\* variant: no reconnect for a non-empty buffer
restartConnection_NoReconnect(c) ==
    [rejectConnection(c) EXCEPT !.socket = NoSocket, !.deferredConnection = "none",
                                !.connectionTimeout = FALSE]

restartConnection(c) ==
    LET c1 == rejectConnection(c)
        c2 == [c1 EXCEPT !.socket = NoSocket, !.deferredConnection = "none",
                         !.connectionTimeout = FALSE]
    IN IF Len(c2.notificationBuffer) > 0 THEN connect(c2) ELSE c2

\* ------------------------------------------------- handleTransmissionError
\* The while loop of lines 236-243: shifts entries off the cache into
\* temporaryCache until one carries the identifier.
RECURSIVE ScanCache(_, _, _, _)
ScanCache(cache, temporaryCache, identifier, ns) ==
    IF cache = << >>
    THEN [found |-> FALSE, notification |-> Null, cache |-> cache,
          temporaryCache |-> temporaryCache]
    ELSE IF ns[Head(cache)].uid = identifier
         THEN [found |-> TRUE, notification |-> Head(cache), cache |-> Tail(cache),
               temporaryCache |-> temporaryCache]
         ELSE ScanCache(Tail(cache), Append(temporaryCache, Head(cache)), identifier, ns)

\* variant: the entries older than the match are kept for retransmission
handleTransmissionError_KeepsOlder(c, data) ==
    IF data.cmd # ErrorCommand THEN c
    ELSE IF ~options.enhanced THEN c
    ELSE LET scan == ScanCache(c.cachedNotifications, << >>, data.id, c.notifs)
             c1 == IF scan.found
                   THEN raiseError([c EXCEPT !.cachedNotifications =
                                        scan.temporaryCache \o scan.cache],
                                   "status", data.code, scan.notification)
                   ELSE raiseError([c EXCEPT !.cachedNotifications = scan.temporaryCache],
                                   "none", 0, Null)
             c2 == [c1 EXCEPT !.notificationBuffer = @ \o c1.cachedNotifications,
                              !.cachedNotifications = << >>]
         IN destroyConnection(c2)

\* variant: without a match the scanned entries are not put back
handleTransmissionError_DropsUnmatched(c, data) ==
    IF data.cmd # ErrorCommand THEN c
    ELSE IF ~options.enhanced THEN c
    ELSE LET scan == ScanCache(c.cachedNotifications, << >>, data.id, c.notifs)
             c1 == IF scan.found
                   THEN raiseError([c EXCEPT !.cachedNotifications = scan.cache],
                                   "status", data.code, scan.notification)
                   ELSE raiseError([c EXCEPT !.cachedNotifications = scan.cache],
                                   "none", 0, Null)
             c2 == [c1 EXCEPT !.notificationBuffer = @ \o c1.cachedNotifications,
                              !.cachedNotifications = << >>]
         IN destroyConnection(c2)

handleTransmissionError(c, data) ==
    IF data.cmd # ErrorCommand THEN c
    ELSE IF ~options.enhanced THEN c
    ELSE LET scan == ScanCache(c.cachedNotifications, << >>, data.id, c.notifs)
             c1 == IF scan.found
                   THEN raiseError([c EXCEPT !.cachedNotifications = scan.cache],
                                   "status", data.code, scan.notification)
                   ELSE raiseError([c EXCEPT !.cachedNotifications = scan.temporaryCache],
                                   "none", 0, Null)
             c2 == [c1 EXCEPT !.notificationBuffer = @ \o c1.cachedNotifications,
                              !.cachedNotifications = << >>]
         IN destroyConnection(c2)

\* ------------------------------------------- sendNotification's callback
\* variant: the counter is reset one step early (>= in place of >)
NextId_WrapsEarly(id) ==
    IF id.lo + 1 < HalfWord
    THEN IF id.hi = HalfWord - 1 /\ id.lo + 1 = HalfWord - 1
         THEN [hi |-> 0, lo |-> 0]
         ELSE [id EXCEPT !.lo = @ + 1]
    ELSE IF id.hi + 1 < HalfWord THEN [hi |-> id.hi + 1, lo |-> 0]
    ELSE [hi |-> 0, lo |-> 0]

\* this.currentId++; if (this.currentId > 0xffffffff) this.currentId = 0
NextId(id) ==
    IF id.lo + 1 < HalfWord THEN [id EXCEPT !.lo = @ + 1]
    ELSE IF id.hi + 1 < HalfWord THEN [hi |-> id.hi + 1, lo |-> 0]
    ELSE [hi |-> 0, lo |-> 0]

\* variant: the token is not checked before encoding
sendCallback_NoTokenCheck(c, n, b) ==
    IF c.socket.bufferSize # 0 \/ ~c.socket.writable THEN bufferNotification(c, n)
    ELSE IF c.notifs[n].len > MaxPayload THEN raiseError(c, "invalidPayloadSize", 0, n)
    ELSE LET uid == c.currentId
             c1 == [c EXCEPT !.notifs[n].uid = uid, !.currentId = NextId(uid)]
             c2 == IF options.enhanced THEN cacheNotification(c1, n) ELSE c1
         IN [c2 EXCEPT !.written = Append(@, [n |-> n, uid |-> uid]),
                       !.socket.bufferSize = b]

\* variant: a payload of exactly MaxPayload bytes is refused
sendCallback_OffByOne(c, n, b) ==
    IF c.socket.bufferSize # 0 \/ ~c.socket.writable THEN bufferNotification(c, n)
    ELSE IF ~c.notifs[n].token THEN raiseError(c, "missingDeviceToken", 0, n)
    ELSE IF c.notifs[n].len >= MaxPayload THEN raiseError(c, "invalidPayloadSize", 0, n)
    ELSE LET uid == c.currentId
             c1 == [c EXCEPT !.notifs[n].uid = uid, !.currentId = NextId(uid)]
             c2 == IF options.enhanced THEN cacheNotification(c1, n) ELSE c1
         IN [c2 EXCEPT !.written = Append(@, [n |-> n, uid |-> uid]),
                       !.socket.bufferSize = b]

\* variant: the notification is cached in either protocol variant
sendCallback_AlwaysCaches(c, n, b) ==
    IF c.socket.bufferSize # 0 \/ ~c.socket.writable THEN bufferNotification(c, n)
    ELSE IF ~c.notifs[n].token THEN raiseError(c, "missingDeviceToken", 0, n)
    ELSE IF c.notifs[n].len > MaxPayload THEN raiseError(c, "invalidPayloadSize", 0, n)
    ELSE LET uid == c.currentId
             c1 == [c EXCEPT !.notifs[n].uid = uid, !.currentId = NextId(uid)]
             c2 == cacheNotification(c1, n)
         IN [c2 EXCEPT !.written = Append(@, [n |-> n, uid |-> uid]),
                       !.socket.bufferSize = b]

\* b is the occupancy of the socket's write buffer after socket.write
sendCallback(c, n, b) ==
    IF c.socket.bufferSize # 0 \/ ~c.socket.writable THEN bufferNotification(c, n)
    ELSE IF ~c.notifs[n].token THEN raiseError(c, "missingDeviceToken", 0, n)
    ELSE IF c.notifs[n].len > MaxPayload THEN raiseError(c, "invalidPayloadSize", 0, n)
    ELSE LET uid == c.currentId
             c1 == [c EXCEPT !.notifs[n].uid = uid, !.currentId = NextId(uid)]
             c2 == IF options.enhanced THEN cacheNotification(c1, n) ELSE c1
         IN [c2 EXCEPT !.written = Append(@, [n |-> n, uid |-> uid]),
                       !.socket.bufferSize = b]

\* ------------------------------------------------ tls.connect's callback
\* variant: socket.authorized is not looked at
connectCallback_IgnoresAuthorized(c, authorized) ==
    LET c1 == [c EXCEPT !.socket.state = IF authorized THEN "authorized"
                                         ELSE "unauthorized",
                        !.connectionTimeout = options.connectionTimeout]
    IN resolveConnection(socketDrained(c1))

connectCallback(c, authorized) ==
    IF ~authorized
    THEN rejectConnection([c EXCEPT !.socket.state = "unauthorized"])
    ELSE LET c1 == [c EXCEPT !.socket.state = "authorized",
                             !.connectionTimeout = options.connectionTimeout]
         IN resolveConnection(socketDrained(c1))

\* ------------------------------------------------------------ the gateway
\* The peer of the transport.  It is switched on only in SpecGateway, where
\* it behaves as the enhanced protocol describes: the first frame it refuses
\* on a connection makes it ignore every later frame of that connection and
\* send one error frame that names the refused identifier.
NoGateway ==
    [on |-> FALSE, faulted |-> FALSE, fault |-> Undefined, accepted |-> {}, rejected |-> {}]

GatewayReceive(g, frame, bad) ==
    IF ~g.on \/ g.faulted THEN g
    ELSE IF bad THEN [g EXCEPT !.faulted = TRUE, !.fault = frame.uid,
                               !.rejected = @ \cup {frame.n}]
    ELSE [g EXCEPT !.accepted = @ \cup {frame.n}]

GatewayOpen(g) == IF g.on THEN [g EXCEPT !.faulted = FALSE, !.fault = Undefined] ELSE g

\* ====================================================================
\* Initial state: the object after the constructor
\* ====================================================================
\* The configurations tried.  The credentials are both given as data or both
\* read from files; the files, the idle timer and the simple protocol are
\* each combined with one cache length.
Options ==
    [ enhanced : BOOLEAN, cacheLength : {1, MaxCacheLength},
      connectionTimeout : BOOLEAN, certData : BOOLEAN, keyData : BOOLEAN,
      errorCallback : {TRUE} ]

\* A notification that sendNotification's callback refuses to encode.
Invalid(nt) == ~nt.token \/ nt.len > MaxPayload
NumInvalid == Cardinality({n \in 1..submitted : Invalid(notifs[n])})

InitConnection ==
    /\ options \in Options
    /\ options.certData = options.keyData
    /\ ~options.enhanced => options.cacheLength = 1
    /\ options.connectionTimeout => options.cacheLength = 1
    /\ ~options.certData =>
          options.enhanced /\ options.cacheLength = 1 /\ ~options.connectionTimeout
    /\ deferredInitialize = "null"
    /\ certData = FALSE
    /\ keyData = FALSE
    /\ certReading = FALSE
    /\ keyReading = FALSE
    /\ deferredConnection = "none"
    /\ opening = 0
    /\ failing = 0
    /\ socket = NoSocket
    /\ connectionTimeout = FALSE
    /\ currentId = Id(0)
    /\ cachedNotifications = << >>
    /\ notificationBuffer = << >>
    /\ notifs = [n \in 1..MaxNotifs |-> NoNotification]
    /\ submitted = 0
    /\ offline = TRUE
    /\ pending = << >>
    /\ tasks = << >>
    /\ written = << >>
    /\ errlog = << >>
    /\ evicted = {}
    /\ keepOrder = FALSE
    /\ appended = << >>
    /\ frames = 0

Init == InitConnection /\ gateway = NoGateway

InitGateway ==
    /\ InitConnection
    /\ options.enhanced
    /\ gateway = [NoGateway EXCEPT !.on = TRUE]

\* ====================================================================
\* Actions
\* ====================================================================
\* The application calls sendNotification with a new notification object.
Submit(tok, len) ==
    /\ submitted < MaxNotifs
    /\ (~tok \/ len > MaxPayload) => NumInvalid < MaxInvalid
    /\ LET n == submitted + 1
           c == [Conn EXCEPT !.notifs[n] = [token |-> tok, len |-> len, uid |-> Undefined]]
       IN Store(sendNotification(c, n))
    /\ submitted' = submitted + 1
    /\ offline' = (offline /\ deferredConnection # "resolved")
    /\ UNCHANGED << options, keepOrder, frames, gateway >>

\* The then-callback of sendNotification for the first scheduled notification.
\* bad: the gateway refuses the frame, if one is written.
RunCallback(b, bad) ==
    /\ tasks # << >>
    /\ bad => gateway.on /\ ~gateway.faulted /\ frames < MaxFrames
    /\ Store(sendCallback([Conn EXCEPT !.tasks = Tail(@)], Head(tasks), b))
    /\ gateway' = IF Len(written') > Len(written)
                  THEN GatewayReceive(gateway, written'[Len(written')], bad)
                  ELSE gateway
    /\ bad => Len(written') > Len(written)
    /\ UNCHANGED << options, keepOrder, submitted, offline, frames >>

\* fs.readFile callback for the certificate.  r: the read failed ("error"),
\* gave an empty file ("empty": data.toString() is '', which is falsy) or
\* gave the certificate ("data").
CertRead(r) ==
    /\ certReading
    /\ tasks = << >> /\ failing = 0
    /\ LET c == [Conn EXCEPT !.certReading = FALSE]
       IN IF r = "error"
          THEN Store(rejectInitialize(c))
          ELSE Store(checkInitialized([c EXCEPT !.certData = (r = "data")]))
    /\ UNCHANGED << options, keepOrder, submitted, offline, frames, gateway >>

\* fs.readFile callback for the key.
KeyRead(r) ==
    /\ keyReading
    /\ tasks = << >> /\ failing = 0
    /\ LET c == [Conn EXCEPT !.keyReading = FALSE]
       IN IF r = "error"
          THEN Store(rejectInitialize(c))
          ELSE Store(checkInitialized([c EXCEPT !.keyData = (r = "data")]))
    /\ UNCHANGED << options, keepOrder, submitted, offline, frames, gateway >>

\* The fail-callback of initialize() inside connect() runs.
ConnectFailed ==
    /\ failing > 0
    /\ Store(failConnect(Conn))
    /\ UNCHANGED << options, keepOrder, submitted, offline, frames, gateway >>

\* The then-callback of initialize() inside connect(): tls.connect and the
\* registration of the socket listeners.
OpenTransport ==
    /\ opening > 0
    /\ deferredInitialize = "resolved"
    /\ Store([Conn EXCEPT !.socket = NewSocket, !.opening = @ - 1])
    /\ gateway' = GatewayOpen(gateway)
    /\ UNCHANGED << options, keepOrder, submitted, offline, frames >>

\* The callback passed to tls.connect (handshake finished).
SecureConnect(authorized) ==
    /\ socket.open /\ socket.state = "handshake" /\ socket.writable
    /\ tasks = << >>
    /\ Store(connectCallback(Conn, authorized))
    /\ UNCHANGED << options, keepOrder, submitted, offline, frames, gateway >>

\* 'drain': the write buffer has been flushed.
SocketDrain ==
    /\ socket.open /\ socket.state = "authorized"
    /\ tasks = << >>
    /\ Store(socketDrained([Conn EXCEPT !.socket.bufferSize = 0]))
    /\ UNCHANGED << options, keepOrder, submitted, offline, frames, gateway >>

\* 'data': the error frame of the gateway of SpecGateway.
GatewayError(code) ==
    /\ gateway.on /\ gateway.fault # Undefined
    /\ socket.open /\ socket.state = "authorized"
    /\ tasks = << >>
    /\ frames < MaxFrames
    /\ Store(handleTransmissionError(Conn, [cmd |-> ErrorCommand, code |-> code,
                                            id |-> gateway.fault]))
    /\ frames' = frames + 1
    /\ gateway' = [gateway EXCEPT !.fault = Undefined]
    /\ UNCHANGED << options, keepOrder, submitted, offline >>

\* The identifiers a received frame is tried with: that of every cached
\* notification, and one that no cached notification carries (currentId has
\* not been handed out to any of them).
FrameIds ==
    {notifs[cachedNotifications[i]].uid : i \in 1..Len(cachedNotifications)}
        \cup {currentId}

\* 'data': a chunk of six bytes from the peer.  The listener is registered
\* when the socket is created (line 147), whatever becomes of the handshake.
\* (A shorter chunk that starts with 8 makes readUInt32BE throw at line 231
\* before any field is touched; it is not among the inputs.)
SocketData(cmd, code, id) ==
    /\ socket.open
    /\ tasks = << >>
    /\ frames < MaxFrames
    /\ Store(handleTransmissionError(Conn, [cmd |-> cmd, code |-> code, id |-> id]))
    /\ frames' = IF cmd = ErrorCommand THEN frames + 1 ELSE frames
    /\ UNCHANGED << options, keepOrder, submitted, offline, gateway >>

\* 'error'
SocketError ==
    /\ socket.open /\ socket.writable
    /\ tasks = << >>
    /\ Store(destroyConnection(Conn))
    /\ UNCHANGED << options, keepOrder, submitted, offline, frames, gateway >>

\* 'end'
SocketEnd ==
    /\ socket.open
    /\ tasks = << >>
    /\ Store(restartConnection(Conn))
    /\ UNCHANGED << options, keepOrder, submitted, offline, frames, gateway >>

\* 'close'
SocketClose ==
    /\ socket.open /\ ~socket.writable
    /\ tasks = << >>
    /\ Store(restartConnection(Conn))
    /\ UNCHANGED << options, keepOrder, submitted, offline, frames, gateway >>

\* the idle timer set in the tls.connect callback fires
IdleTimeout ==
    /\ connectionTimeout
    /\ tasks = << >>
    /\ Store(destroyConnection([Conn EXCEPT !.connectionTimeout = FALSE]))
    /\ UNCHANGED << options, keepOrder, submitted, offline, frames, gateway >>

Next ==
    \/ \E tok \in BOOLEAN, len \in PayloadLengths : Submit(tok, len)
    \/ \E b \in {0, 1} : RunCallback(b, FALSE)
    \/ \E r \in ReadResults : CertRead(r)
    \/ \E r \in ReadResults : KeyRead(r)
    \/ ConnectFailed
    \/ OpenTransport
    \/ \E authorized \in BOOLEAN : SecureConnect(authorized)
    \/ SocketDrain
    \/ \E cmd \in Commands, code \in StatusCodes, id \in FrameIds :
          SocketData(cmd, code, id)
    \/ SocketError
    \/ SocketEnd
    \/ SocketClose
    \/ IdleTimeout

Spec == Init /\ [][Next]_vars

\* The same program against the gateway of the enhanced protocol.
NextGateway ==
    \/ \E tok \in BOOLEAN, len \in PayloadLengths : Submit(tok, len)
    \/ \E b \in {0, 1}, bad \in BOOLEAN : RunCallback(b, bad)
    \/ \E r \in ReadResults : CertRead(r)
    \/ \E r \in ReadResults : KeyRead(r)
    \/ ConnectFailed
    \/ OpenTransport
    \/ \E authorized \in BOOLEAN : SecureConnect(authorized)
    \/ SocketDrain
    \/ \E code \in StatusCodes : GatewayError(code)
    \/ SocketError
    \/ SocketEnd
    \/ SocketClose
    \/ IdleTimeout

SpecGateway == InitGateway /\ [][NextGateway]_vars

\* The same program started from an idle instance that has been in use: the
\* credentials are loaded, nothing is held, and the identifier counter has
\* reached a value next to a carry of its low half or next to its wrap.
\* The histories start empty.
StartIds ==
    { [hi |-> 0, lo |-> HalfWord - 2],
      [hi |-> HalfWord - 1, lo |-> HalfWord - 2] }

InitWrap ==
    /\ options \in Options
    /\ options.enhanced /\ options.certData /\ options.keyData
    /\ ~options.connectionTimeout
    /\ deferredInitialize = "resolved"
    /\ certData = TRUE
    /\ keyData = TRUE
    /\ certReading = FALSE
    /\ keyReading = FALSE
    /\ deferredConnection = "none"
    /\ opening = 0
    /\ failing = 0
    /\ socket = NoSocket
    /\ connectionTimeout = FALSE
    /\ currentId \in StartIds
    /\ cachedNotifications = << >>
    /\ notificationBuffer = << >>
    /\ notifs = [n \in 1..MaxNotifs |-> NoNotification]
    /\ submitted = 0
    /\ offline = TRUE
    /\ pending = << >>
    /\ tasks = << >>
    /\ written = << >>
    /\ errlog = << >>
    /\ evicted = {}
    /\ keepOrder = FALSE
    /\ appended = << >>
    /\ frames = 0
    /\ gateway = NoGateway

NextWrap ==
    \/ \E tok \in BOOLEAN, len \in PayloadLengths : Submit(tok, len)
    \/ \E b \in {0, 1} : RunCallback(b, FALSE)
    \/ OpenTransport
    \/ \E authorized \in BOOLEAN : SecureConnect(authorized)
    \/ SocketDrain
    \/ \E cmd \in Commands, code \in StatusCodes, id \in FrameIds :
          SocketData(cmd, code, id)
    \/ SocketError
    \/ SocketEnd
    \/ SocketClose

SpecWrap == InitWrap /\ [][NextWrap]_vars

\* The same program started from a Connected instance of the simple protocol
\* that has written one frame, part of which is still in the socket's write
\* buffer.  The histories start empty.
InitBusy ==
    /\ options \in Options
    /\ ~options.enhanced /\ options.cacheLength = 1
    /\ options.certData /\ options.keyData /\ ~options.connectionTimeout
    /\ deferredInitialize = "resolved"
    /\ certData = TRUE
    /\ keyData = TRUE
    /\ certReading = FALSE
    /\ keyReading = FALSE
    /\ deferredConnection = "resolved"
    /\ opening = 0
    /\ failing = 0
    /\ socket = [NewSocket EXCEPT !.state = "authorized", !.bufferSize = 1]
    /\ connectionTimeout = FALSE
    /\ currentId = Id(1)
    /\ cachedNotifications = << >>
    /\ notificationBuffer = << >>
    /\ notifs = [n \in 1..MaxNotifs |-> NoNotification]
    /\ submitted = 0
    /\ offline = TRUE
    /\ pending = << >>
    /\ tasks = << >>
    /\ written = << >>
    /\ errlog = << >>
    /\ evicted = {}
    /\ keepOrder = TRUE
    /\ appended = << >>
    /\ frames = 0
    /\ gateway = NoGateway

NextBusy ==
    \/ \E tok \in BOOLEAN, len \in PayloadLengths : Submit(tok, len)
    \/ \E b \in {0, 1} : RunCallback(b, FALSE)
    \/ OpenTransport
    \/ \E authorized \in BOOLEAN : SecureConnect(authorized)
    \/ SocketDrain
    \/ SocketError
    \/ SocketEnd
    \/ SocketClose

SpecBusy == InitBusy /\ [][NextBusy]_vars

\* The configurations with an idle timer and a gateway that sends nothing,
\* with the steps that node and q are bound to take: a scheduled promise callback runs, the then-callback of
\* initialize() runs, 'close' follows destroySoon(), and 'drain' follows a
\* write that left data in the socket's buffer.
InitFair ==
    /\ InitConnection
    /\ options.connectionTimeout
    /\ gateway = NoGateway

NextFair ==
    \/ \E tok \in BOOLEAN, len \in PayloadLengths : Submit(tok, len)
    \/ \E b \in {0, 1} : RunCallback(b, FALSE)
    \/ OpenTransport
    \/ \E authorized \in BOOLEAN : SecureConnect(authorized)
    \/ SocketDrain
    \/ SocketError
    \/ SocketEnd
    \/ SocketClose
    \/ IdleTimeout

Fairness ==
    /\ WF_vars(\E b \in {0, 1} : RunCallback(b, FALSE))
    /\ WF_vars(OpenTransport)
    /\ WF_vars(SocketClose)
    /\ WF_vars(socket.bufferSize # 0 /\ SocketDrain)

SpecFair == InitFair /\ [][NextFair]_vars /\ Fairness

\* The enhanced protocol with a transport that does not fail: every handshake
\* ends authorized, and a transport ends only by the 'close' that follows
\* destroySoon().  The error frames are those of MaxFrames.
InitLive ==
    /\ InitConnection
    /\ options.enhanced /\ options.certData /\ ~options.connectionTimeout
    /\ gateway = NoGateway

NextLive ==
    \/ \E tok \in BOOLEAN, len \in PayloadLengths : Submit(tok, len)
    \/ \E b \in {0, 1} : RunCallback(b, FALSE)
    \/ OpenTransport
    \/ SecureConnect(TRUE)
    \/ SocketDrain
    \/ \E cmd \in Commands, code \in StatusCodes, id \in FrameIds :
          SocketData(cmd, code, id)
    \/ SocketClose

FairnessLive ==
    /\ WF_vars(\E b \in {0, 1} : RunCallback(b, FALSE))
    /\ WF_vars(OpenTransport)
    /\ WF_vars(SecureConnect(TRUE))
    /\ WF_vars(SocketClose)
    /\ WF_vars(socket.bufferSize # 0 /\ SocketDrain)

SpecLive == InitLive /\ [][NextLive]_vars /\ FairnessLive

\* The same program with the enhanced protocol, the credentials given as
\* data, no idle timer, and every cache length up to the largest: with the
\* lengths below it the notifications submitted overflow a cache that holds
\* more than one entry.
CacheLengths == 1..MaxCacheLength

InitCache ==
    /\ options \in [ enhanced : {TRUE}, cacheLength : CacheLengths,
                     connectionTimeout : {FALSE}, certData : {TRUE},
                     keyData : {TRUE}, errorCallback : {TRUE} ]
    /\ deferredInitialize = "null"
    /\ certData = FALSE
    /\ keyData = FALSE
    /\ certReading = FALSE
    /\ keyReading = FALSE
    /\ deferredConnection = "none"
    /\ opening = 0
    /\ failing = 0
    /\ socket = NoSocket
    /\ connectionTimeout = FALSE
    /\ currentId = Id(0)
    /\ cachedNotifications = << >>
    /\ notificationBuffer = << >>
    /\ notifs = [n \in 1..MaxNotifs |-> NoNotification]
    /\ submitted = 0
    /\ offline = TRUE
    /\ pending = << >>
    /\ tasks = << >>
    /\ written = << >>
    /\ errlog = << >>
    /\ evicted = {}
    /\ keepOrder = FALSE
    /\ appended = << >>
    /\ frames = 0
    /\ gateway = NoGateway

NextCache ==
    \/ \E tok \in BOOLEAN, len \in PayloadLengths : Submit(tok, len)
    \/ \E b \in {0, 1} : RunCallback(b, FALSE)
    \/ OpenTransport
    \/ \E authorized \in BOOLEAN : SecureConnect(authorized)
    \/ SocketDrain
    \/ \E cmd \in Commands, code \in StatusCodes, id \in FrameIds :
          SocketData(cmd, code, id)
    \/ SocketError
    \/ SocketEnd
    \/ SocketClose

SpecCache == InitCache /\ [][NextCache]_vars

TypeOK ==
    /\ deferredConnection \in {"none", "pending", "resolved", "rejected"}
    /\ deferredInitialize \in {"null", "pending", "resolved", "rejected"}
    /\ socket.state \in {"handshake", "authorized", "unauthorized"}
    /\ submitted \in 0..MaxNotifs
    /\ frames \in 0..MaxFrames

\* ====================================================================
\* Vocabulary of the properties
\* ====================================================================
InSeq(n, s) == \E i \in 1..Len(s) : s[i] = n
Submitted == 1..submitted
Valid(n) == ~Invalid(notifs[n])
Awaiting(n) == InSeq(n, pending) \/ InSeq(n, tasks) \/ InSeq(n, notificationBuffer)
InCache(n) == InSeq(n, cachedNotifications)
WasWritten(n) == \E i \in 1..Len(written) : written[i].n = n
FirstWrite(n) == CHOOSE i \in 1..Len(written) :
                    written[i].n = n /\ \A j \in 1..(i - 1) : written[j].n # n
Reported(n) == \E i \in 1..Len(errlog) : errlog[i].n = n
Backpressure == socket.bufferSize # 0 \/ ~socket.writable
\* index of the oldest cache entry that carries the identifier, 0 if none
MatchIndex(id) ==
    IF \E i \in 1..Len(cachedNotifications) : notifs[cachedNotifications[i]].uid = id
    THEN CHOOSE i \in 1..Len(cachedNotifications) :
            /\ notifs[cachedNotifications[i]].uid = id
            /\ \A j \in 1..(i - 1) : notifs[cachedNotifications[j]].uid # id
    ELSE 0
Newer(k) == SubSeq(cachedNotifications, k + 1, Len(cachedNotifications))

\* ====================================================================
\* C1  Notifications submitted while the instance is not connected are
\*     written in the order of their submission, as long as no error frame
\*     has been received: when every call so far was made while not
\*     connected, of two notifications that both reached the transport the
\*     one submitted first was written first.
\* ====================================================================
C1_SubmissionOrder ==
    (frames = 0 /\ offline) =>
        \A a, b \in Submitted :
            (a < b /\ WasWritten(a) /\ WasWritten(b))
                => FirstWrite(a) < FirstWrite(b)

\* ====================================================================
\* C2  An error frame whose identifier is in the cache: the entries older
\*     than the match are discarded without a callback, the callback is
\*     invoked once with the status code and the matching notification, the
\*     newer entries are appended in order behind the Outbound Buffer, and
\*     the cache is empty afterwards.
\* ====================================================================
C2_MatchedReplay ==
    [][\A code \in StatusCodes, id \in FrameIds :
          (options.enhanced /\ MatchIndex(id) # 0
              /\ SocketData(ErrorCommand, code, id))
          => LET k == MatchIndex(id)
             IN /\ cachedNotifications' = << >>
                /\ notificationBuffer' = notificationBuffer \o Newer(k)
                /\ errlog' = Append(errlog, [kind |-> "status", code |-> code,
                                             n |-> cachedNotifications[k]])
                /\ \A i \in 1..(k - 1) :
                      ~InSeq(cachedNotifications[i], notificationBuffer')
                         \/ InSeq(cachedNotifications[i], notificationBuffer)
      ]_vars

\* three frames were written, the error frame named the second one: the
\* first is gone, the second is reported, the third waits in the buffer
C2_Witness ==
    /\ options.enhanced /\ frames = 1 /\ Len(written) = 3 /\ Len(errlog) = 1
    /\ errlog[1] = [kind |-> "status", code |-> 8, n |-> written[2].n]
    /\ cachedNotifications = << >>
    /\ notificationBuffer = << written[3].n >>
    /\ written[1].n # written[2].n /\ written[1].n # written[3].n

\* ====================================================================
\* C3  An error frame whose identifier is not in the cache: every cache
\*     entry is appended, in cache order, to the Outbound Buffer, the cache
\*     is empty afterwards and the callback is invoked once with the generic
\*     code and a null notification.
\* ====================================================================
C3_UnmatchedReplay ==
    [][\A code \in StatusCodes, id \in FrameIds :
          (options.enhanced /\ MatchIndex(id) = 0
              /\ SocketData(ErrorCommand, code, id))
          => /\ cachedNotifications' = << >>
             /\ notificationBuffer' = notificationBuffer \o cachedNotifications
             /\ errlog' = Append(errlog, [kind |-> "none", code |-> 0, n |-> Null])
      ]_vars

\* two frames are in the cache and the frame names neither: both are in the
\* buffer again, in the order in which they were written
C3_Witness ==
    /\ options.enhanced /\ frames = 1 /\ Len(written) = 2 /\ Len(errlog) = 1
    /\ errlog[1] = [kind |-> "none", code |-> 0, n |-> Null]
    /\ cachedNotifications = << >>
    /\ notificationBuffer = << written[1].n, written[2].n >>

\* ====================================================================
\* C4  A valid notification, once submitted, is never dropped.  For a
\*     notification that has not been written yet (it cannot be in the
\*     cache, evicted or reported as faulting) this says: it is awaiting
\*     transmission, also after a failed connection attempt.
\* ====================================================================
C4_NeverDropped ==
    \A n \in Submitted : (Valid(n) /\ ~WasWritten(n)) => Awaiting(n)

\* ====================================================================
\* C5  (checked under SpecGateway) Against a gateway that, after a frame it
\*     refuses, ignores the later frames of that connection and sends one
\*     error frame naming the refused identifier, no notification is lost
\*     silently: a notification that has been written was accepted by the
\*     gateway, was reported through the error callback, or is still held
\*     by the instance (scheduled, in the Outbound Buffer or in the cache).
\*     A written notification that is none of these can never be written or
\*     reported again, so it is never "eventually accepted or reported".
\*     The notifications that a full cache evicted are left out: the
\*     formula speaks of those the cache never dropped for capacity.
\* ====================================================================
HeldOrSettled(n) ==
    \/ n \in gateway.accepted
    \/ Reported(n)
    \/ Awaiting(n)
    \/ InCache(n)

C5_NoSilentLoss ==
    \A n \in Submitted : (WasWritten(n) /\ n \notin evicted) => HeldOrSettled(n)

\* ====================================================================
\* C6  (checked under SpecCache) The cache never holds more than
\*     cacheLength entries, it holds the most recently written
\*     notifications in the order of their transmission, and a write
\*     appends its notification, removing the oldest entry, and only that
\*     one, exactly when the cache was full.
\* ====================================================================
WrittenRefs == [i \in 1..Len(written) |-> written[i].n]
C6_CacheBound ==
    /\ [](/\ Len(cachedNotifications) <= options.cacheLength
          /\ Len(cachedNotifications) <= Len(written)
          /\ cachedNotifications =
                SubSeq(WrittenRefs, Len(written) - Len(cachedNotifications) + 1,
                       Len(written)))
    /\ [][(options.enhanced /\ Len(written') > Len(written))
            => cachedNotifications' =
                 IF Len(cachedNotifications) = options.cacheLength
                 THEN Append(Tail(cachedNotifications), written'[Len(written')].n)
                 ELSE Append(cachedNotifications, written'[Len(written')].n)
        ]_vars

\* a cache of more than one entry, and one more frame written than it
\* holds: the cache is full, the first notification written is the only one
\* that left it and the others kept their order
C6_Witness ==
    /\ options.enhanced /\ frames = 0
    /\ options.cacheLength > 1
    /\ Len(written) = options.cacheLength + 1
    /\ Len(cachedNotifications) = options.cacheLength
    /\ evicted = {written[1].n}
    /\ cachedNotifications = SubSeq(WrittenRefs, 2, Len(written))

\* ====================================================================
\* C7  (as stated) A notification without a token is never appended to the
\*     Outbound Buffer, never cached and never written, whatever the state
\*     of the connection.
\* ====================================================================
C7_NeverQueued ==
    \A n \in Submitted :
        ~notifs[n].token =>
            ~InSeq(n, notificationBuffer) /\ ~InCache(n) /\ ~WasWritten(n)

\* C7  (amended) A notification without a token is never cached, never
\*     written, never given an identifier, reported at most once and not
\*     handled again after the report; it is appended to the Outbound
\*     Buffer only by its send callback finding backpressure on a connected
\*     transport.
C7_Amended ==
    /\ [](\A n \in Submitted :
            ~notifs[n].token =>
                /\ ~InCache(n) /\ ~WasWritten(n) /\ notifs[n].uid = Undefined
                /\ Cardinality({i \in 1..Len(errlog) : errlog[i].n = n}) <= 1
                /\ Reported(n) => ~Awaiting(n))
    /\ [][\A n \in 1..MaxNotifs :
            (/\ n <= submitted' /\ ~notifs'[n].token
             /\ InSeq(n, notificationBuffer') /\ ~InSeq(n, notificationBuffer))
            => (/\ deferredConnection = "resolved" /\ Backpressure
                /\ tasks # << >> /\ Head(tasks) = n)
        ]_vars

\* a notification without a token sits in the buffer of a connected instance
C7_Witness ==
    \E n \in Submitted :
        /\ ~notifs[n].token /\ InSeq(n, notificationBuffer)
        /\ deferredConnection = "resolved" /\ socket.state = "authorized"

\* ====================================================================
\* C8  (as stated) Every error frame received causes exactly one
\*     invocation of the error callback, in either protocol variant.
\* ====================================================================
C8_OneCallbackPerFrame ==
    [][\A code \in StatusCodes, id \in FrameIds :
          SocketData(ErrorCommand, code, id) => Len(errlog') = Len(errlog) + 1
      ]_vars

\* C8  (amended) With the enhanced protocol every error frame received
\*     causes exactly one invocation of the error callback, with the status
\*     code and the matched notification or with the generic code and null;
\*     with the simple protocol an error frame causes no invocation.
C8_Amended ==
    [][\A code \in StatusCodes, id \in FrameIds :
          SocketData(ErrorCommand, code, id) =>
             IF options.enhanced
             THEN \/ /\ MatchIndex(id) # 0
                     /\ errlog' = Append(errlog,
                           [kind |-> "status", code |-> code,
                            n |-> cachedNotifications[MatchIndex(id)]])
                  \/ /\ MatchIndex(id) = 0
                     /\ errlog' = Append(errlog, [kind |-> "none", code |-> 0, n |-> Null])
             ELSE errlog' = errlog
      ]_vars

\* the only frame written was named by an error frame: one invocation
C8_Witness ==
    /\ options.enhanced /\ frames = 1 /\ Len(written) = 1
    /\ errlog = << [kind |-> "status", code |-> 8, n |-> written[1].n] >>

\* ====================================================================
\* C9  On end or close the transport handle is released; with a non-empty
\*     Outbound Buffer a new connection attempt is outstanding right away,
\*     with an empty one the instance is Disconnected, and an attempt
\*     starts from Disconnected only with a submission.
\* ====================================================================
C9_RestartOnEnd ==
    /\ [][(SocketEnd \/ SocketClose) =>
            /\ ~socket'.open
            /\ notificationBuffer' = notificationBuffer
            /\ deferredConnection' =
                  IF notificationBuffer # << >> THEN "pending" ELSE "none"
        ]_vars
    /\ [][(deferredConnection = "none" /\ deferredConnection' # "none")
            => submitted' = submitted + 1
        ]_vars

\* after a connection that wrote a frame ended, an attempt is outstanding
\* for the buffered notifications although nobody is waiting on a submission
C9_Witness ==
    /\ deferredConnection = "pending" /\ ~socket.open
    /\ notificationBuffer # << >> /\ pending = << >>
    /\ Len(written) > 0

\* ====================================================================
\* C10 When the transport becomes ready and peer authentication fails, the
\*     instance is Disconnected again (no attempt outstanding) with the
\*     Outbound Buffer unchanged, so that the next sendNotification starts
\*     a new attempt.
\* ====================================================================
C10_AuthFailure ==
    [][SecureConnect(FALSE) =>
          /\ deferredConnection' = "none"
          /\ notificationBuffer' = notificationBuffer
      ]_vars

\* ====================================================================
\* C11 When reading the certificate or the key fails, only that attempt
\*     fails: once the failure has reached connect() (its fail-callback has
\*     run) the Outbound Buffer is unchanged and the instance is
\*     Disconnected again (no attempt outstanding), and a sendNotification
\*     made after that starts a new attempt with a new credential load.
\* ====================================================================
C11_CredentialFailure ==
    /\ [][ConnectFailed =>
            /\ notificationBuffer' = notificationBuffer
            /\ deferredConnection' = "none"
        ]_vars
    /\ [][(deferredInitialize = "rejected" /\ failing = 0
             /\ submitted' = submitted + 1) =>
            /\ deferredConnection' = "pending"
            /\ certReading' \/ keyReading'
        ]_vars

\* ====================================================================
\* C12 At most one connection attempt or live transport handle exists at
\*     any time: a sendNotification made while an attempt is outstanding or
\*     a transport is held shares it (nothing is opened, the same promise is
\*     used), a transport is opened only while no handle is held, and a
\*     handle is given up only by restartConnection, which leaves the
\*     instance Disconnected or with one new attempt.
\* ====================================================================
C12_OneAttempt ==
    /\ [](opening + (IF socket.open THEN 1 ELSE 0) <= 1)
    /\ []((opening > 0 \/ socket.open) => deferredConnection # "none")
    /\ [][(submitted' = submitted + 1 /\ deferredConnection # "none") =>
            /\ opening' = opening
            /\ socket' = socket
            /\ deferredConnection' = deferredConnection
        ]_vars
    /\ [][OpenTransport => (~socket.open /\ socket'.open /\ opening' = 0)]_vars
    /\ [][(socket.open /\ ~socket'.open) =>
            /\ SocketEnd \/ SocketClose
            /\ opening' = (IF notificationBuffer # << >> THEN 1 ELSE 0)
        ]_vars

\* a second transport is in its handshake (a frame was written on an earlier
\* one) and a submission made during the reconnect waits for the same attempt
C12_Witness ==
    /\ socket.open /\ socket.state = "handshake" /\ opening = 0
    /\ Len(written) > 0
    /\ notificationBuffer # << >> /\ pending # << >>

\* ====================================================================
\* C13 (checked under SpecFair) The idle timer firing on a Connected instance with an empty
\*     Outbound Buffer closes the transport (destroySoon) without starting
\*     an attempt; nothing is written to the closing transport; its close
\*     (or end) follows and leaves the instance Disconnected with the timer
\*     cancelled; an attempt starts only with a submission or, in
\*     restartConnection, for a non-empty buffer.
\* ====================================================================
\* the timer armed in the tls.connect callback of this transport has fired
TimerFired ==
    /\ options.connectionTimeout /\ ~connectionTimeout
    /\ socket.open /\ socket.state = "authorized"

C13_IdleTimeout ==
    /\ [][(IdleTimeout /\ deferredConnection = "resolved" /\ socket.writable
             /\ notificationBuffer = << >>) =>
            /\ TimerFired' /\ ~socket'.writable
            /\ deferredConnection' = "resolved" /\ opening' = 0
            /\ notificationBuffer' = << >>
        ]_vars
    /\ [](TimerFired => ~socket.writable)
    /\ [][TimerFired => written' = written]_vars
    /\ [][(TimerFired /\ ~socket'.open /\ notificationBuffer = << >>) =>
            /\ deferredConnection' = "none" /\ opening' = 0
            /\ ~connectionTimeout'
        ]_vars
    /\ [][opening' > opening =>
            (submitted' = submitted + 1 \/ notificationBuffer # << >>)
        ]_vars
    /\ (TimerFired ~> ~socket.open)

\* the timer has fired on a transport that wrote a frame; nothing is buffered
C13_Witness ==
    /\ TimerFired /\ deferredConnection = "resolved"
    /\ notificationBuffer = << >> /\ tasks = << >>
    /\ Len(written) > 0

\* ====================================================================
\* C14 (checked under SpecWrap) The identifiers of successive
\*     transmissions are consecutive modulo 2^32: each is the previous one
\*     plus one, 0 follows 2^32-1, every identifier and the counter lie in
\*     0..2^32-1, the counter is the last identifier plus one, and no
\*     identifier is used twice (fewer than 2^32 frames are written).
\* ====================================================================
InRange(id) == id.hi \in 0..(HalfWord - 1) /\ id.lo \in 0..(HalfWord - 1)
\* id + 1 modulo 2^32, on the two halves
Plus1(id) ==
    LET lo1 == id.lo + 1
    IN [hi |-> (id.hi + lo1 \div HalfWord) % HalfWord, lo |-> lo1 % HalfWord]
MaxId == [hi |-> HalfWord - 1, lo |-> HalfWord - 1]

C14_Identifiers ==
    /\ InRange(currentId)
    /\ \A i \in 1..Len(written) : InRange(written[i].uid)
    /\ \A i \in 1..(Len(written) - 1) :
          /\ written[i + 1].uid = Plus1(written[i].uid)
          /\ written[i].uid = MaxId => written[i + 1].uid = Id(0)
    /\ Len(written) > 0 => currentId = Plus1(written[Len(written)].uid)
    /\ \A i, j \in 1..Len(written) : i # j => written[i].uid # written[j].uid

\* the frame written after the one with identifier 2^32-1 carries 0, and a
\* further frame 1
C14_Witness ==
    \E i \in 1..Len(written) :
        /\ written[i].uid = MaxId
        /\ i + 2 <= Len(written)
        /\ written[i + 1].uid = Id(0) /\ written[i + 2].uid = Id(1)

\* ====================================================================
\* C15 When the send callback handles a notification that has a token, on
\*     a transport without backpressure: a payload of exactly 255 bytes is
\*     encoded and written with the next identifier; a payload of 256 bytes
\*     is reported with the payload-too-large error and nothing is written,
\*     cached or numbered.  In every state a notification with a payload
\*     over 255 bytes has not been written, is not cached and has no
\*     identifier.
\* ====================================================================
C15_PayloadLimit ==
    /\ [](\A n \in Submitted :
            notifs[n].len > MaxPayload =>
                ~WasWritten(n) /\ ~InCache(n) /\ notifs[n].uid = Undefined)
    /\ [][((\E b \in {0, 1} : RunCallback(b, FALSE))
             /\ ~Backpressure /\ notifs[Head(tasks)].token) =>
            LET n == Head(tasks)
            IN IF notifs[n].len = MaxPayload
               THEN /\ written' = Append(written, [n |-> n, uid |-> currentId])
                    /\ notifs'[n].uid = currentId
                    /\ errlog' = errlog
               ELSE /\ notifs[n].len = MaxPayload + 1
                    /\ errlog' = Append(errlog, [kind |-> "invalidPayloadSize",
                                                 code |-> 0, n |-> n])
                    /\ written' = written
                    /\ cachedNotifications' = cachedNotifications
                    /\ currentId' = currentId
                    /\ notifs' = notifs
        ]_vars

\* of two notifications with a token the one of 255 bytes has been written
\* and the one of 256 bytes has been reported
C15_Witness ==
    \E a, b \in Submitted :
        /\ notifs[a].token /\ notifs[a].len = MaxPayload /\ WasWritten(a)
        /\ notifs[b].token /\ notifs[b].len = MaxPayload + 1
        /\ \E i \in 1..Len(errlog) :
              errlog[i] = [kind |-> "invalidPayloadSize", code |-> 0, n |-> b]

\* ====================================================================
\* C16 (checked under SpecBusy) Notifications that the send callback put into the Outbound Buffer
\*     reach the transport in the order in which they were put there, under
\*     every interleaving of drain events, connection-ready events and
\*     submissions: as long as no error frame has been received, of two
\*     buffered notifications that have both been written, the one buffered
\*     first was written first.
\* ====================================================================
C16_BufferOrder ==
    frames = 0 =>
        \A i, j \in 1..Len(appended) :
            (i < j /\ WasWritten(appended[i]) /\ WasWritten(appended[j]))
                => FirstWrite(appended[i]) < FirstWrite(appended[j])

\* ====================================================================
\* C17 (checked under SpecLive: connection attempts succeed, no further
\*     error frame) After an error frame has been handled the transport is
\*     closing and is eventually released, and every notification that the
\*     replay moved into the Outbound Buffer (it is in the buffer and has
\*     been written before) is eventually written again.
\* ====================================================================
Writes(n) == Cardinality({i \in 1..Len(written) : written[i].n = n})
Replayed(n) == frames = MaxFrames /\ InSeq(n, notificationBuffer) /\ Writes(n) = 1

C17_ReplayFlushed ==
    /\ (frames > 0 /\ socket.open /\ ~socket.writable) ~> ~socket.open
    /\ \A n \in 1..MaxNotifs : Replayed(n) ~> (Writes(n) > 1)

\* ====================================================================
\* C18 (as stated) The identifier of a notification is assigned once: once
\*     a notification has an identifier, no step changes it.
\* ====================================================================
C18_AssignedOnce ==
    [][\A n \in 1..MaxNotifs :
          notifs[n].uid # Undefined => notifs'[n].uid = notifs[n].uid
      ]_vars

\* C18 (amended) The identifier of a notification is assigned at each of
\*     its transmissions and by nothing else: it changes only in the step
\*     that writes the notification, where it becomes the current value of
\*     the counter; buffering, caching and replay leave it alone, so in
\*     every state it is the identifier of the notification's last frame
\*     (none before the first transmission).  A retransmission after a
\*     replay gives the notification a new identifier.
LastWrite(n) == CHOOSE i \in 1..Len(written) :
                   written[i].n = n /\ \A j \in (i + 1)..Len(written) : written[j].n # n
C18_Amended ==
    /\ [](\A n \in 1..MaxNotifs :
            notifs[n].uid = IF WasWritten(n) THEN written[LastWrite(n)].uid
                            ELSE Undefined)
    /\ [][\A n \in 1..MaxNotifs :
            notifs'[n].uid # notifs[n].uid =>
                /\ written' = Append(written, [n |-> n, uid |-> currentId])
                /\ notifs'[n].uid = currentId
        ]_vars

\* a notification was written, replayed by an error frame and written again:
\* its two frames carry different identifiers and it has the later one
C18_Witness ==
    \E n \in Submitted :
        /\ Writes(n) = 2
        /\ written[FirstWrite(n)].uid # written[LastWrite(n)].uid
        /\ notifs[n].uid = written[LastWrite(n)].uid

\* ====================================================================
\* C19 With the simple protocol the cache is empty in every state, an
\*     error frame changes nothing (no notification is moved into the
\*     Outbound Buffer, no callback, the transport stays as it is), and no
\*     notification is written twice.
\* ====================================================================
C19_SimpleNoCache ==
    /\ [](~options.enhanced =>
            /\ cachedNotifications = << >>
            /\ evicted = {}
            /\ \A n \in Submitted : Writes(n) <= 1)
    /\ [][\A code \in StatusCodes, id \in FrameIds :
            (~options.enhanced /\ SocketData(ErrorCommand, code, id)) =>
                /\ notificationBuffer' = notificationBuffer
                /\ cachedNotifications' = << >>
                /\ socket' = socket
                /\ errlog' = errlog
                /\ written' = written
        ]_vars

\* the simple protocol: two frames were written, an error frame has been
\* received and nothing is cached or buffered
C19_Witness ==
    /\ ~options.enhanced /\ frames = 1 /\ Len(written) = 2
    /\ cachedNotifications = << >> /\ notificationBuffer = << >>
    /\ socket.open /\ socket.writable

\* ====================================================================
\* C20 A frame is written only to the transport the instance holds, after
\*     that transport became ready with its peer authorized: send callbacks
\*     are scheduled, and deferredConnection is resolved, only while an
\*     authorized transport is held; the step that writes a frame starts
\*     with a resolved connection on an open, authorized, writable
\*     transport and keeps that transport.
\* ====================================================================
Ready == socket.open /\ socket.state = "authorized"

C20_WriteWhenReady ==
    /\ [](tasks # << >> => (deferredConnection = "resolved" /\ Ready))
    /\ [](deferredConnection = "resolved" => Ready)
    /\ [][Len(written') > Len(written) =>
            /\ deferredConnection = "resolved" /\ Ready /\ socket.writable
            /\ socket.bufferSize = 0
            /\ Len(written') = Len(written) + 1
            /\ \E b \in {0, 1} : socket' = [socket EXCEPT !.bufferSize = b]
        ]_vars

\* one frame has been written on an authorized transport that is still held
C20_Witness ==
    /\ Len(written) = 1 /\ Ready /\ socket.writable
    /\ deferredConnection = "resolved"
    /\ tasks = << >> /\ notificationBuffer = << >> /\ errlog = << >>
====
